---- MODULE Spec2Model ----
(***************************************************************************)
(* Model of configSDC.py (CalendarManager): the spreadsheet clean-up, the  *)
(* grouping of rows into calendars, the consolidation of opening hours     *)
(* into time slots, and the run loop that creates calendars and opening    *)
(* hours through the remote API.                                           *)
(*                                                                         *)
(* A cell is a Python str, modelled as a sequence of characters (each a    *)
(* one-character string; "^2" stands for the single character U+00B2).     *)
(* Python columns are 0-based: row[c] in the source is row[c + 1] here.    *)
(***************************************************************************)
EXTENDS Integers, Sequences, FiniteSets, TLC

VARIABLES
    sheet,            \* sh.sheet1.get_all_values(): the raw rows of the sheet
    data,             \* the argument of group_calendar_data (cleaned rows)
    calendar_groups,  \* self.calendar_groups: sequence of <<name, rows>>
    group,            \* the argument of process_opening_hours
    time_slots,       \* the dict built by process_opening_hours, in insertion order
    warnings,         \* logger.warning records of process_opening_hours
    csv,              \* the rows of calendars_ids.csv
    calls,            \* the trace of remote calls and pauses of the run
    read_result,      \* what read_spreadsheet returned to run
    pc,               \* position of the program
    gi,               \* index of the group the run loop is at
    si,               \* index of the time slot create_opening_hours is at
    attempt,          \* tenacity attempt number of get_admin_id
    outage,           \* environment: failing responses POST /calendars still has in store
    faults            \* environment: failed remote calls so far

vars == <<sheet, data, calendar_groups, group, time_slots, warnings, csv,
          calls, read_result, pc, gi, si, attempt, outage, faults>>

-----------------------------------------------------------------------------
(* Bounds *)

MaxRows == 4        \* rows handed to group_calendar_data
MaxGroupRows == 2   \* rows of a group handed to process_opening_hours
MaxDataRows == 2    \* data rows of the sheet of a run
MaxFaults == 3      \* failed remote calls in one run

-----------------------------------------------------------------------------
(* Python str operations *)

Range(s) == {s[i] : i \in 1..Len(s)}

UpperCase == <<"A","B","C","D","E","F","G","H","I","J","K","L","M",
               "N","O","P","Q","R","S","T","U","V","W","X","Y","Z">>
LowerCase == <<"a","b","c","d","e","f","g","h","i","j","k","l","m",
               "n","o","p","q","r","s","t","u","v","w","x","y","z">>
DecimalDigits == <<"0","1","2","3","4","5","6","7","8","9">>

IsSpace(c) == c = " "

\* str.strip()
RECURSIVE LStrip(_)
LStrip(s) == IF s # <<>> /\ IsSpace(Head(s)) THEN LStrip(Tail(s)) ELSE s

RECURSIVE RStrip(_)
RStrip(s) ==
    IF s # <<>> /\ IsSpace(s[Len(s)]) THEN RStrip(SubSeq(s, 1, Len(s) - 1)) ELSE s

Strip(s) == RStrip(LStrip(s))

\* str.lower()
LowerChar(c) ==
    IF \E k \in 1..Len(UpperCase) : UpperCase[k] = c
    THEN LowerCase[CHOOSE k \in 1..Len(UpperCase) : UpperCase[k] = c]
    ELSE c

Lower(s) == [k \in 1..Len(s) |-> LowerChar(s[k])]

IsDecimalChar(c) == c \in Range(DecimalDigits)

DigitValue(c) == (CHOOSE k \in 1..Len(DecimalDigits) : DecimalDigits[k] = c) - 1

\* str.isdigit(): every character is a digit (superscript digits included)
\* and there is at least one character
IsDigit(s) == s # <<>> /\ \A k \in 1..Len(s) : IsDecimalChar(s[k]) \/ s[k] = "^2"

\* int(s) raises ValueError on a string holding a non-decimal digit
IntRaises(s) == \E k \in 1..Len(s) : ~IsDecimalChar(s[k])

RECURSIVE ParseInt(_)
ParseInt(s) == IF s = <<>> THEN 0 ELSE 10 * ParseInt(SubSeq(s, 1, Len(s) - 1)) + DigitValue(s[Len(s)])

\* str(n) for n >= 0
RECURSIVE Str(_)
Str(n) == IF n < 10 THEN <<DecimalDigits[n + 1]>>
          ELSE Str(n \div 10) \o <<DecimalDigits[(n % 10) + 1]>>

\* datetime.strptime(s, '%H:%M') succeeds: the hour is 2[0-3], [0-1]\d or \d,
\* the minute is [0-5]\d or \d, and nothing remains unconverted
HourField(h) ==
    /\ Len(h) \in {1, 2}
    /\ \A k \in 1..Len(h) : IsDecimalChar(h[k])
    /\ Len(h) = 2 => ParseInt(h) <= 23

MinuteField(m) ==
    /\ Len(m) \in {1, 2}
    /\ \A k \in 1..Len(m) : IsDecimalChar(m[k])
    /\ Len(m) = 2 => ParseInt(m) <= 59

Strptime(s) ==
    \E p \in 1..Len(s) :
        /\ s[p] = ":"
        /\ HourField(SubSeq(s, 1, p - 1))
        /\ MinuteField(SubSeq(s, p + 1, Len(s)))

-----------------------------------------------------------------------------
(* Cell literals *)

Empty == <<>>
Chiuso == <<"C","h","i","u","s","o">>
chiuso == <<"c","h","i","u","s","o">>
closed == <<"c","l","o","s","e","d">>
No == <<"n","o">>

-----------------------------------------------------------------------------
(* CalendarManager: the pure functions *)

is_valid_time(time_str) ==
    IF Lower(time_str) = chiuso THEN TRUE ELSE Strptime(time_str)

clean_cell(cell) ==
    LET cell_str == Strip(cell)
    IN  IF Lower(cell_str) \in {chiuso, closed, Empty} THEN Chiuso ELSE cell_str

clean_spreadsheet_data(rows) ==
    [r \in 1..Len(rows) |-> [c \in 1..Len(rows[r]) |-> clean_cell(rows[r][c])]]

\* the test of line 141: an empty calendar name or "Chiuso" means continuation
is_continuation(row) == Strip(row[1]) = Empty \/ Strip(row[1]) = Chiuso

\* group_step with the starting row left out of its own group
group_step_without_starter(st, row) ==
    IF Strip(row[1]) = Empty \/ Strip(row[1]) = Chiuso
    THEN IF st.current_name # Empty
         THEN [st EXCEPT !.current_group = Append(@, row)]
         ELSE st
    ELSE [groups |-> IF st.current_name # Empty
                     THEN Append(st.groups, <<st.current_name, st.current_group>>)
                     ELSE st.groups,
          current_name |-> row[1],
          current_group |-> <<>>]

\* one iteration of the loop of group_calendar_data; st is
\* [groups, current_name, current_group]
group_step(st, row) ==
    IF is_continuation(row)
    THEN IF st.current_name # Empty
         THEN [st EXCEPT !.current_group = Append(@, row)]
         ELSE st
    ELSE [groups |-> IF st.current_name # Empty
                     THEN Append(st.groups, <<st.current_name, st.current_group>>)
                     ELSE st.groups,
          current_name |-> row[1],
          current_group |-> <<row>>]

RECURSIVE group_loop(_, _, _)
group_loop(st, rows, i) ==
    IF i > Len(rows) THEN st ELSE group_loop(group_step(st, rows[i]), rows, i + 1)

\* group_calendar_data(rows) appended to the groups already held
group_calendar_data(groups, rows) ==
    LET st == group_loop([groups |-> groups, current_name |-> Empty,
                          current_group |-> <<>>], rows, 1)
    IN  IF st.current_name # Empty
        THEN Append(st.groups, <<st.current_name, st.current_group>>)
        ELSE st.groups

days_mapping == <<<<1, 2>>, <<2, 5>>, <<3, 8>>, <<4, 11>>, <<5, 14>>, <<6, 17>>>>

DefaultMinutes == 30

\* lines 241-245: the value of meeting_min and whether the except branch logs
meeting_min(meeting_minutes) ==
    IF IsDigit(meeting_minutes)
    THEN IF IntRaises(meeting_minutes)
         THEN [value |-> DefaultMinutes, warned |-> TRUE]
         ELSE [value |-> ParseInt(meeting_minutes), warned |-> FALSE]
    ELSE [value |-> DefaultMinutes, warned |-> FALSE]

HasKey(slots, slot_key) == \E k \in 1..Len(slots) : slots[k].key = slot_key

\* add_day without the test that prevents duplicate days
add_day_repeating(slots, slot_key, day_num) ==
    LET with_key == IF HasKey(slots, slot_key)
                    THEN slots
                    ELSE Append(slots, [key |-> slot_key, days |-> <<>>])
    IN  [k \in 1..Len(with_key) |->
            IF with_key[k].key = slot_key
            THEN [with_key[k] EXCEPT !.days = Append(@, day_num)]
            ELSE with_key[k]]

\* add_day where a day already listed under any key is not added again
add_day_first_wins(slots, slot_key, day_num) ==
    LET with_key == IF HasKey(slots, slot_key)
                    THEN slots
                    ELSE Append(slots, [key |-> slot_key, days |-> <<>>])
    IN  [k \in 1..Len(with_key) |->
            IF /\ with_key[k].key = slot_key
               /\ \A j \in 1..Len(with_key) : day_num \notin Range(with_key[j].days)
            THEN [with_key[k] EXCEPT !.days = Append(@, day_num)]
            ELSE with_key[k]]

\* lines 251-254: create the key's day list, then add the day unless the list has it
add_day(slots, slot_key, day_num) ==
    LET with_key == IF HasKey(slots, slot_key)
                    THEN slots
                    ELSE Append(slots, [key |-> slot_key, days |-> <<>>])
    IN  [k \in 1..Len(with_key) |->
            IF with_key[k].key = slot_key /\ day_num \notin Range(with_key[k].days)
            THEN [with_key[k] EXCEPT !.days = Append(@, day_num)]
            ELSE with_key[k]]

\* the body of the loop over days_mapping, for row number i (0-based) and the
\* pair dm; acc is [slots, warnings]
process_day(acc, i, row, dm) ==
    LET day_num == dm[1]
        day_col == dm[2]
    IN  IF day_col + 2 >= Len(row)
        THEN [acc EXCEPT !.warnings = Append(@, <<"incomplete", i, day_num>>)]
        ELSE
        LET begin_hour == Strip(row[day_col + 1])
            end_hour == Strip(row[day_col + 2])
            meeting_minutes == Strip(row[day_col + 3])
            mm == meeting_min(meeting_minutes)
            slot_key == <<begin_hour, end_hour, Str(mm.value), No>>
        IN  IF begin_hour = Chiuso \/ end_hour = Chiuso
               \/ begin_hour = Empty \/ end_hour = Empty
            THEN acc
            ELSE IF ~(is_valid_time(begin_hour) /\ is_valid_time(end_hour))
            THEN [acc EXCEPT !.warnings = Append(@, <<"time", i, day_num>>)]
            ELSE [slots |-> add_day(acc.slots, slot_key, day_num),
                  warnings |-> IF mm.warned
                               THEN Append(acc.warnings, <<"minutes", meeting_minutes>>)
                               ELSE acc.warnings]

RECURSIVE days_loop(_, _, _, _)
days_loop(acc, i, row, m) ==
    IF m > Len(days_mapping) THEN acc
    ELSE days_loop(process_day(acc, i, row, days_mapping[m]), i, row, m + 1)

RECURSIVE rows_loop(_, _, _)
rows_loop(acc, rows, r) ==
    IF r > Len(rows) THEN acc
    ELSE rows_loop(days_loop(acc, r - 1, rows[r], 1), rows, r + 1)

\* [slots, warnings]: the returned dict and what was logged on the way
process_opening_hours(rows) == rows_loop([slots |-> <<>>, warnings |-> <<>>], rows, 1)

-----------------------------------------------------------------------------
(* Inputs *)

NameA == <<"A">>
RawNames == {NameA, <<" ", "B">>, Empty, <<"C","l","o","s","e","d">>}

T0900 == <<"0","9",":","0","0">>
T900 == <<"9",":","0","0">>
T1200 == <<"1","2",":","0","0">>
T1400 == <<"1","4",":","0","0">>
T1800 == <<"1","8",":","0","0">>
T2561 == <<"2","5",":","6","1">>

BandOpen == <<T0900, T1200, <<"3","0">>>>
BandPadded == <<T0900, <<"1","2",":","0","0"," ">>, <<"0","3","0">>>>
BandAfternoon == <<T1400, T1800, <<"a","b","c">>>>
BandSuper == <<T1400, T1800, <<"^2">>>>
BandZero == <<T900, T1200, <<"0">>>>
BandBlank == <<Empty, Empty, Empty>>
BandHalf == <<T0900, <<"C","H","I","U","S","O">>, <<"3","0">>>>
BandBad == <<T2561, T1200, <<"3","0">>>>

MondayBands == {BandOpen, BandPadded, BandAfternoon, BandSuper, BandZero,
                BandBlank, BandHalf, BandBad}
FullRow == 20

\* a raw row: name, an unused column, Monday's band, four blank days,
\* Saturday's band, cut to len columns
MkRow(name, mon, sat, len) ==
    SubSeq(<<name, Empty>> \o mon \o BandBlank \o BandBlank \o BandBlank
           \o BandBlank \o sat, 1, len)

\* rows with every Monday band and an open Saturday, whole or a column short
\* of Saturday's band, and a row too short for any band
HoursRows(name) ==
    {MkRow(name, mon, BandOpen, len) :
        mon \in MondayBands, len \in {FullRow - 1, FullRow}}
    \cup {MkRow(name, BandOpen, BandOpen, 4)}

\* the rows of one calendar as they leave the sheet: a name row, then continuations
RawGroups ==
    UNION {{<<first>> \o rest : first \in HoursRows(NameA),
                                rest \in [1..n -> HoursRows(Empty)]} :
           n \in 0..(MaxGroupRows - 1)}

HoursInputs == {clean_spreadsheet_data(g) : g \in RawGroups}

\* row i carries its position in column 1
TaggedRows(names) == [i \in 1..Len(names) |-> <<names[i], Str(i)>>]

GroupInputs ==
    UNION {{clean_spreadsheet_data(TaggedRows(names)) : names \in [1..n -> RawNames]} :
           n \in 0..MaxRows}

-----------------------------------------------------------------------------
(* The pure functions applied to their inputs *)

Idle ==
    /\ sheet = <<>>
    /\ calendar_groups = <<>>
    /\ time_slots = <<>>
    /\ warnings = <<>>
    /\ csv = <<>>
    /\ calls = <<>>
    /\ read_result = FALSE
    /\ gi = 0
    /\ si = 0
    /\ attempt = 0
    /\ outage = 0
    /\ faults = 0

InitGroup ==
    /\ Idle
    /\ data \in GroupInputs
    /\ group = <<>>
    /\ pc = "group"

GroupCalendarData ==
    /\ pc = "group"
    /\ calendar_groups' = group_calendar_data(calendar_groups, data)
    /\ pc' = "grouped"
    /\ UNCHANGED <<sheet, data, group, time_slots, warnings, csv, calls,
                   read_result, gi, si, attempt, outage, faults>>

SpecGroup == InitGroup /\ [][GroupCalendarData]_vars

InitHours ==
    /\ Idle
    /\ data = <<>>
    /\ group \in HoursInputs
    /\ pc = "hours"

ProcessOpeningHours ==
    /\ pc = "hours"
    /\ time_slots' = process_opening_hours(group).slots
    /\ warnings' = process_opening_hours(group).warnings
    /\ pc' = "processed"
    /\ UNCHANGED <<sheet, data, calendar_groups, group, csv, calls,
                   read_result, gi, si, attempt, outage, faults>>

SpecHours == InitHours /\ [][ProcessOpeningHours]_vars

-----------------------------------------------------------------------------
(* CalendarManager.run *)

StopAfterAttempt == 3
HeaderRows == 2
MinSheetRows == 2
SleepOpening == 1
SleepCalendar == 2

CsvHeader == <<<<"C","a","l","e","n","d","a","r"," ","I","D">>,
               <<"C","a","l","e","n","d","a","r"," ","N","a","m","e">>>>

\* read_spreadsheet that only refuses a sheet without any row
read_spreadsheet_any_row(rows, groups) ==
    IF rows = <<>>
    THEN [ok |-> FALSE, data |-> <<>>, groups |-> groups]
    ELSE LET cleaned_data ==
                 clean_spreadsheet_data(SubSeq(rows, HeaderRows + 1, Len(rows)))
         IN  [ok |-> TRUE, data |-> cleaned_data,
              groups |-> group_calendar_data(groups, cleaned_data)]

\* read_spreadsheet on the rows get_all_values returned, with the groups held
\* so far: [ok, data, groups]
read_spreadsheet(rows, groups) ==
    IF rows = <<>> \/ Len(rows) < MinSheetRows
    THEN [ok |-> FALSE, data |-> <<>>, groups |-> groups]
    ELSE LET cleaned_data ==
                 clean_spreadsheet_data(SubSeq(rows, HeaderRows + 1, Len(rows)))
         IN  [ok |-> TRUE, data |-> cleaned_data,
              groups |-> group_calendar_data(groups, cleaned_data)]

\* sorted(days)
RECURSIVE Sorted(_)
Sorted(s) ==
    IF s = <<>> THEN <<>>
    ELSE LET k == CHOOSE a \in 1..Len(s) : \A b \in 1..Len(s) : s[a] <= s[b]
         IN  <<s[k]>> \o Sorted(SubSeq(s, 1, k - 1) \o SubSeq(s, k + 1, Len(s)))

\* the calendars the remote API has created so far
Created == {k \in 1..Len(calls) : calls[k][1] = "calendar" /\ calls[k][3]}

\* the id the remote API gives the next calendar
NextId == Str(Cardinality(Created) + 1)

Header1 == <<<<"N","a","m","e">>, Empty, <<"M","o","n">>>>
Header2 == <<Empty, Empty, <<"o","p","e","n">>>>

RunRows == {MkRow(NameA, BandOpen, BandOpen, FullRow),
            MkRow(<<" ", "B">>, BandAfternoon, BandOpen, FullRow),
            MkRow(Empty, BandZero, BandBlank, FullRow),
            MkRow(<<"C">>, BandBlank, BandHalf, FullRow)}

\* what get_all_values can return: nothing, part of the header, or the header
\* and some data rows
RunSheets ==
    {SubSeq(<<Header1, Header2>> \o rows, 1, k) :
        rows \in [1..MaxDataRows -> RunRows], k \in 0..(HeaderRows + MaxDataRows)}

Init ==
    /\ sheet \in RunSheets
    /\ data = <<>>
    /\ calendar_groups = <<>>
    /\ group = <<>>
    /\ time_slots = <<>>
    /\ warnings = <<>>
    /\ csv = <<>>
    /\ calls = <<>>
    /\ read_result = FALSE
    /\ pc = "start"
    /\ gi = 0
    /\ si = 0
    /\ attempt = 0
    /\ outage = 0
    /\ faults = 0

\* lines 361-363: the result file is opened for writing and given its header
RunStart ==
    /\ pc = "start"
    /\ csv' = <<CsvHeader>>
    /\ pc' = "read"
    /\ UNCHANGED <<sheet, data, calendar_groups, group, time_slots, warnings, calls,
                   read_result, gi, si, attempt, outage, faults>>

\* lines 164-179 and 365-367: the sheet is read, cleaned and grouped
ReadSpreadsheet ==
    /\ pc = "read"
    /\ LET r == read_spreadsheet(sheet, calendar_groups)
       IN  /\ read_result' = r.ok
           /\ data' = r.data
           /\ calendar_groups' = r.groups
           /\ pc' = IF r.ok THEN "loop" ELSE "done"
    /\ gi' = 1
    /\ UNCHANGED <<sheet, group, time_slots, warnings, csv, calls, si, attempt,
                   outage, faults>>

\* lines 164, 177-179: opening the sheet raises, read_spreadsheet returns False
ReadSpreadsheetError ==
    /\ pc = "read"
    /\ faults < MaxFaults
    /\ faults' = faults + 1
    /\ read_result' = FALSE
    /\ pc' = "done"
    /\ UNCHANGED <<sheet, data, calendar_groups, group, time_slots, warnings, csv,
                   calls, gi, si, attempt, outage>>

\* lines 369-370, 301-304: the next group is handed to create_calendar
CreateCalendar ==
    /\ pc = "loop"
    /\ gi <= Len(calendar_groups)
    /\ calls' = Append(calls, <<"create", gi>>)
    /\ attempt' = 1
    /\ pc' = "admin"
    /\ UNCHANGED <<sheet, data, calendar_groups, group, time_slots, warnings, csv,
                   read_result, gi, si, outage, faults>>

\* lines 369-370: no group is left
RunEnd ==
    /\ pc = "loop"
    /\ gi > Len(calendar_groups)
    /\ pc' = "done"
    /\ UNCHANGED <<sheet, data, calendar_groups, group, time_slots, warnings, csv,
                   calls, read_result, gi, si, attempt, outage, faults>>

\* lines 185-191: the admin lookup answers; the remote end then has some
\* number of failing answers in store for POST /calendars
GetAdminId ==
    /\ pc = "admin"
    /\ calls' = Append(calls, <<"admin", TRUE>>)
    /\ \E n \in 0..StopAfterAttempt :
           /\ n > 0 => faults < MaxFaults
           /\ outage' = n
    /\ pc' = "post"
    /\ UNCHANGED <<sheet, data, calendar_groups, group, time_slots, warnings, csv,
                   read_result, gi, si, attempt, faults>>

\* lines 181-194: the admin lookup fails and tenacity waits before the next attempt
GetAdminIdRetry ==
    /\ pc = "admin"
    /\ faults < MaxFaults
    /\ attempt < StopAfterAttempt
    /\ calls' = calls \o <<<<"admin", FALSE>>, <<"wait">>>>
    /\ attempt' = attempt + 1
    /\ faults' = faults + 1
    /\ UNCHANGED <<sheet, data, calendar_groups, group, time_slots, warnings, csv,
                   read_result, pc, gi, si, outage>>

\* lines 181-194, 353-355: the last attempt of the admin lookup fails, the
\* RetryError is caught by create_calendar, which returns None
GetAdminIdGiveUp ==
    /\ pc = "admin"
    /\ faults < MaxFaults
    /\ attempt = StopAfterAttempt
    /\ calls' = Append(calls, <<"admin", FALSE>>)
    /\ faults' = faults + 1
    /\ gi' = gi + 1
    /\ pc' = "loop"
    /\ UNCHANGED <<sheet, data, calendar_groups, group, time_slots, warnings, csv,
                   read_result, si, attempt, outage>>

\* lines 326-349: POST /calendars succeeds, the id is written to the result
\* file and the group's opening hours are consolidated; with no valid opening
\* hours the call ends after its pause
PostCalendar ==
    /\ pc = "post"
    /\ outage = 0
    /\ LET name == calendar_groups[gi][1]
           rows == calendar_groups[gi][2]
           found == process_opening_hours(rows)
           posted == Append(calls, <<"calendar", gi, TRUE, outage>>)
       IN  /\ csv' = Append(csv, <<NextId, name>>)
           /\ group' = rows
           /\ time_slots' = found.slots
           /\ warnings' = found.warnings
           /\ IF found.slots = <<>>
              THEN /\ calls' = Append(posted, <<"sleep", SleepCalendar>>)
                   /\ gi' = gi + 1
                   /\ si' = si
                   /\ pc' = "loop"
              ELSE /\ calls' = posted
                   /\ gi' = gi
                   /\ si' = 1
                   /\ pc' = "hours"
    /\ UNCHANGED <<sheet, data, calendar_groups, read_result, attempt, outage, faults>>

\* PostCalendarFails with the row written to the result file before the
\* answer is looked at
PostCalendarFailsLogged ==
    /\ pc = "post"
    /\ outage > 0
    /\ calls' = Append(calls, <<"calendar", gi, FALSE, outage>>)
    /\ csv' = Append(csv, <<NextId, calendar_groups[gi][1]>>)
    /\ outage' = outage - 1
    /\ faults' = faults + 1
    /\ gi' = gi + 1
    /\ pc' = "loop"
    /\ UNCHANGED <<sheet, data, calendar_groups, group, time_slots, warnings,
                   read_result, si, attempt>>

\* lines 326-332, 353-355: POST /calendars fails, create_calendar returns None
PostCalendarFails ==
    /\ pc = "post"
    /\ outage > 0
    /\ calls' = Append(calls, <<"calendar", gi, FALSE, outage>>)
    /\ outage' = outage - 1
    /\ faults' = faults + 1
    /\ gi' = gi + 1
    /\ pc' = "loop"
    /\ UNCHANGED <<sheet, data, calendar_groups, group, time_slots, warnings, csv,
                   read_result, si, attempt>>

\* lines 263-293, 349: what follows the request for time slot si: the next
\* slot, or the return of create_opening_hours and the pause of create_calendar
after_opening_hours(trace) ==
    IF si < Len(time_slots)
    THEN /\ calls' = trace
         /\ si' = si + 1
         /\ UNCHANGED <<gi, pc>>
    ELSE /\ calls' = Append(trace, <<"sleep", SleepCalendar>>)
         /\ gi' = gi + 1
         /\ pc' = "loop"
         /\ UNCHANGED si

OpeningHoursCall(ok) ==
    <<"hours", gi, time_slots[si].key, Sorted(time_slots[si].days), ok>>

\* lines 264-287: the opening hours of time slot si are created, then a pause
PostOpeningHours ==
    /\ pc = "hours"
    /\ after_opening_hours(calls \o <<OpeningHoursCall(TRUE), <<"sleep", SleepOpening>>>>)
    /\ UNCHANGED <<sheet, data, calendar_groups, group, time_slots, warnings, csv,
                   read_result, attempt, outage, faults>>

\* PostOpeningHoursFails where the failure ends create_opening_hours
PostOpeningHoursFailsAborting ==
    /\ pc = "hours"
    /\ faults < MaxFaults
    /\ faults' = faults + 1
    /\ calls' = calls \o <<OpeningHoursCall(FALSE), <<"sleep", SleepCalendar>>>>
    /\ gi' = gi + 1
    /\ pc' = "loop"
    /\ UNCHANGED <<sheet, data, calendar_groups, group, time_slots, warnings, csv,
                   read_result, si, attempt, outage>>

\* lines 278-284, 289-291: the request for time slot si fails
PostOpeningHoursFails ==
    /\ pc = "hours"
    /\ faults < MaxFaults
    /\ faults' = faults + 1
    /\ after_opening_hours(Append(calls, OpeningHoursCall(FALSE)))
    /\ UNCHANGED <<sheet, data, calendar_groups, group, time_slots, warnings, csv,
                   read_result, attempt, outage>>

Next ==
    \/ RunStart
    \/ ReadSpreadsheet
    \/ ReadSpreadsheetError
    \/ CreateCalendar
    \/ RunEnd
    \/ GetAdminId
    \/ GetAdminIdRetry
    \/ GetAdminIdGiveUp
    \/ PostCalendar
    \/ PostCalendarFails
    \/ PostOpeningHours
    \/ PostOpeningHoursFails

Spec == Init /\ [][Next]_vars

-----------------------------------------------------------------------------
(* Properties of group_calendar_data *)

IsNameRow(row) == row[1] # Empty /\ row[1] # Chiuso

NameRows == {i \in 1..Len(data) : IsNameRow(data[i])}

\* the position of the first name row after row i, or one past the last row
NextName(i) ==
    IF \E j \in NameRows : j > i
    THEN CHOOSE j \in NameRows : j > i /\ \A k \in NameRows : k > i => j <= k
    ELSE Len(data) + 1

Rank(i) == Cardinality({j \in NameRows : j <= i})

\* C1: the groups are, in source order, one per name row (column 0 neither
\* empty nor "Chiuso"): the group is named after that row's column 0 and holds
\* that row followed by the continuation rows up to the next name row;
\* continuation rows before the first name row are in no group.
C1_GroupsFollowNameRows ==
    pc = "grouped" =>
        /\ Len(calendar_groups) = Cardinality(NameRows)
        /\ \A i \in NameRows :
               calendar_groups[Rank(i)] = <<data[i][1], SubSeq(data, i, NextName(i) - 1)>>

\* an orphan continuation row, then two groups, the first with a continuation row
C1_Witness ==
    /\ pc = "grouped"
    /\ Len(data) >= 4
    /\ ~IsNameRow(data[1])
    /\ Len(calendar_groups) = 2
    /\ Len(calendar_groups[1][2]) = 2

-----------------------------------------------------------------------------
(* Properties of process_opening_hours *)

Bands == 1..Len(days_mapping)
DayOf(m) == days_mapping[m][1]
StartColumn(m) == days_mapping[m][2]

BeginCell(row, m) == row[StartColumn(m) + 1]
EndCell(row, m) == row[StartColumn(m) + 2]
DurationCell(row, m) == row[StartColumn(m) + 3]

\* band m of the row is an open day: enough columns, begin and end neither
\* empty nor "Chiuso", both times of the form H:M
OpenDay(row, m) ==
    /\ Len(row) >= StartColumn(m) + 3
    /\ BeginCell(row, m) \notin {Empty, Chiuso}
    /\ EndCell(row, m) \notin {Empty, Chiuso}
    /\ Strptime(BeginCell(row, m))
    /\ Strptime(EndCell(row, m))

\* a non-negative integer literal: one or more decimal digits
IsNatLiteral(cell) == cell # <<>> /\ \A k \in 1..Len(cell) : IsDecimalChar(cell[k])

NormalMinutes(cell) == IF IsNatLiteral(cell) THEN Str(ParseInt(cell)) ELSE <<"3", "0">>

RuleOf(row, m) ==
    <<BeginCell(row, m), EndCell(row, m), NormalMinutes(DurationCell(row, m)), No>>

OpenBands == {rm \in (1..Len(group)) \X Bands : OpenDay(group[rm[1]], rm[2])}

DaysOfRule(key) == {DayOf(rm[2]) : rm \in {x \in OpenBands : RuleOf(group[x[1]], x[2]) = key}}

Keys == {time_slots[j].key : j \in 1..Len(time_slots)}

NoRepeat(s) == \A a, b \in 1..Len(s) : s[a] = s[b] => a = b

\* C2: the table has the key (begin, end, minutes, "no") exactly when some row
\* has an open day with that rule, and the key's day list holds exactly the
\* weekdays of those open days, each once; closed, too-short and invalid bands
\* contribute nothing and do not stop the other bands.
C2_TableIsOpenDays ==
    pc = "processed" =>
        /\ Keys = {RuleOf(group[rm[1]], rm[2]) : rm \in OpenBands}
        /\ \A j, k \in 1..Len(time_slots) : time_slots[j].key = time_slots[k].key => j = k
        /\ \A j \in 1..Len(time_slots) :
               /\ Range(time_slots[j].days) = DaysOfRule(time_slots[j].key)
               /\ NoRepeat(time_slots[j].days)

\* row 0 has an invalid Monday and an open Saturday, and a later row gives
\* Monday the rule of that Saturday
C2_Witness ==
    /\ pc = "processed"
    /\ <<"time", 0, 1>> \in Range(warnings)
    /\ \E w \in Range(warnings) : w[1] = "incomplete"
    /\ \E j \in 1..Len(time_slots) : time_slots[j].days = <<6, 1>>

\* C3 as stated: no weekday is listed under two keys of one table.
C3_DayUnderOneKey ==
    pc = "processed" =>
        \A j, k \in 1..Len(time_slots) :
            j # k => Range(time_slots[j].days) \cap Range(time_slots[k].days) = {}

\* C3 as amended: a weekday is listed at most once under each key, and when
\* two rows give one weekday two different valid rules, the day is listed
\* under both keys.
C3_DayOncePerKey ==
    pc = "processed" =>
        /\ \A j \in 1..Len(time_slots) : NoRepeat(time_slots[j].days)
        /\ \A x, y \in OpenBands :
               (x[2] = y[2] /\ RuleOf(group[x[1]], x[2]) # RuleOf(group[y[1]], y[2])) =>
                   \A z \in {x, y} :
                       \E j \in 1..Len(time_slots) :
                           /\ time_slots[j].key = RuleOf(group[z[1]], z[2])
                           /\ DayOf(z[2]) \in Range(time_slots[j].days)

\* two rows give Monday two different rules
C3_Witness ==
    /\ pc = "processed"
    /\ \E x, y \in OpenBands :
           /\ x[1] # y[1] /\ x[2] = 1 /\ y[2] = 1
           /\ RuleOf(group[x[1]], 1) # RuleOf(group[y[1]], 1)
    /\ \E j, k \in 1..Len(time_slots) :
           j # k /\ 1 \in Range(time_slots[j].days) /\ 1 \in Range(time_slots[k].days)

\* C9: an open day whose duration cell is no non-negative integer literal is
\* in the table under a key with 30 minutes, and a warning about the cell is
\* logged.
C9_DefaultMinutesWarned ==
    pc = "processed" =>
        \A rm \in OpenBands :
            ~IsNatLiteral(DurationCell(group[rm[1]], rm[2])) =>
                /\ \E j \in 1..Len(time_slots) :
                       /\ time_slots[j].key[3] = <<"3", "0">>
                       /\ time_slots[j].key[1] = BeginCell(group[rm[1]], rm[2])
                       /\ time_slots[j].key[2] = EndCell(group[rm[1]], rm[2])
                       /\ DayOf(rm[2]) \in Range(time_slots[j].days)
                /\ <<"minutes", DurationCell(group[rm[1]], rm[2])>> \in Range(warnings)

\* C10: the meeting minutes of every key of the table are a positive integer.
C10_MinutesPositive ==
    pc = "processed" =>
        \A j \in 1..Len(time_slots) :
            /\ IsNatLiteral(time_slots[j].key[3])
            /\ ParseInt(time_slots[j].key[3]) > 0

-----------------------------------------------------------------------------
(* Properties of run *)

Finished == pc = "done"

DataRowsLeft == IF Len(sheet) > HeaderRows THEN Len(sheet) - HeaderRows ELSE 0

NoRun ==
    /\ ~read_result
    /\ calendar_groups = <<>>
    /\ \A k \in 1..Len(calls) : calls[k][1] # "calendar"

\* C4 as stated: with fewer than 2 data rows left after the 2 header rows,
\* read_spreadsheet returns False, there is no group and no calendar is requested.
C4_FewDataRowsNoRun == (Finished /\ DataRowsLeft < 2) => NoRun

\* C4 as amended: with fewer than 2 rows in the whole sheet, header rows
\* included, read_spreadsheet returns False, there is no group and no calendar
\* is requested.
C4_FewSheetRowsNoRun == (Finished /\ Len(sheet) < 2) => NoRun

\* a sheet of one row was read without error and the run ended
C4_Witness == Finished /\ Len(sheet) = 1 /\ faults = 0 /\ ~read_result

IsCalendarCall(e) == e[1] = "calendar"
IsCreated(e) == e[1] = "calendar" /\ e[3]
IsCreate(e) == e[1] = "create"
IsHoursCall(e) == e[1] = "hours"
IsPause(e) == e[1] \in {"sleep", "wait"}

CreatedGroup(g) == \E k \in 1..Len(calls) : IsCreated(calls[k]) /\ calls[k][2] = g

\* C5: a calendar request that fails while the remote end would answer a later
\* attempt within the cap is retried, and the calendar of that group is created.
C5_TransientFailureRetried ==
    Finished =>
        \A k \in 1..Len(calls) :
            (IsCalendarCall(calls[k]) /\ ~calls[k][3] /\ calls[k][4] < StopAfterAttempt) =>
                CreatedGroup(calls[k][2])

HoursCallsOf(g) == SelectSeq(calls, LAMBDA e : IsHoursCall(e) /\ e[2] = g)

RulesOf(g) ==
    LET slots == process_opening_hours(calendar_groups[g][2]).slots
    IN  [j \in 1..Len(slots) |-> <<slots[j].key, Sorted(slots[j].days)>>]

GroupSteps == SelectSeq(calls, LAMBDA e : IsCreate(e) \/ IsCalendarCall(e) \/ IsHoursCall(e))

\* C6: whatever calls fail, create_calendar is entered for every group in
\* source order; every rule of a created calendar is submitted exactly once, in
\* order, whether or not earlier rules failed; a group whose calendar was not
\* created has no opening-hours call; the groups after it are still processed.
C6_FailuresAreLocal ==
    (Finished /\ read_result) =>
        /\ SelectSeq(calls, IsCreate) = [g \in 1..Len(calendar_groups) |-> <<"create", g>>]
        /\ \A a, b \in 1..Len(GroupSteps) : a < b => GroupSteps[a][2] <= GroupSteps[b][2]
        /\ \A g \in 1..Len(calendar_groups) :
               /\ Len(SelectSeq(calls, LAMBDA e : IsCalendarCall(e) /\ e[2] = g)) <= 1
               /\ LET sent == HoursCallsOf(g)
                  IN  IF CreatedGroup(g)
                      THEN [j \in 1..Len(sent) |-> <<sent[j][3], sent[j][4]>>] = RulesOf(g)
                      ELSE sent = <<>>

\* the first group's calendar fails; the second is created, its first rule
\* fails and its second rule is submitted
C6_Witness ==
    /\ Finished
    /\ Len(calendar_groups) >= 2
    /\ ~CreatedGroup(1)
    /\ CreatedGroup(2)
    /\ Len(HoursCallsOf(2)) = 2
    /\ ~HoursCallsOf(2)[1][5]

\* C7: between two consecutive opening-hours calls, and between two
\* consecutive calendar calls, there is a pause.
C7_PauseBetweenCalls ==
    \A a, b \in 1..Len(calls) :
        ( /\ a < b
          /\ \/ IsHoursCall(calls[a]) /\ IsHoursCall(calls[b])
             \/ IsCalendarCall(calls[a]) /\ IsCalendarCall(calls[b]) ) =>
            \E k \in (a + 1)..(b - 1) : IsPause(calls[k])

CreatedCalls == SelectSeq(calls, IsCreated)

\* C8: at the end of the run the result file holds the header and then one row
\* (id, name) for each created calendar, in source order, and nothing else.
C8_ResultLog ==
    Finished =>
        /\ csv = <<CsvHeader>> \o [n \in 1..Len(CreatedCalls) |->
                      <<Str(n), calendar_groups[CreatedCalls[n][2]][1]>>]
        /\ \A a, b \in 1..Len(CreatedCalls) :
               a < b => CreatedCalls[a][2] < CreatedCalls[b][2]

\* the first group's calendar fails, the second is created and one of its
\* opening-hours calls fails: the file has the header and the second group
C8_Witness ==
    /\ Finished
    /\ Len(calendar_groups) = 2
    /\ ~CreatedGroup(1)
    /\ CreatedGroup(2)
    /\ \E k \in 1..Len(calls) : IsHoursCall(calls[k]) /\ ~calls[k][5]
    /\ Len(csv) = 2

====
